---- MODULE Spec2Model ----
(***************************************************************************)
(* gotelnet: a command-line TCP client that relays bytes between the       *)
(* process's standard streams and a TCP connection.                        *)
(*                                                                         *)
(* The repository holds three builds of package main:                      *)
(*   "connectOnly"  src/unnamed/part_000      parse, connect, return       *)
(*   "exitRelay"    src/main.go lines 1-139   relay ended by os.Exit       *)
(*   "onceRelay"    src/main.go lines 141-278 relay ended by a sync.Once   *)
(*                                            guarded close of a channel   *)
(* The build is chosen in Init; every action is translated from the lines  *)
(* of the build(s) it belongs to.                                          *)
(***************************************************************************)
EXTENDS Integers, Sequences, FiniteSets, TLC

VARIABLES
    variant,     \* which build of package main runs
    flagsResult, \* outcome of flag.Parse() on the command line's options
    timeoutFlag, \* value of -timeout (default 10)
    args,        \* flag.Args(): the positional arguments
    cfg,         \* the Config built by parseArgs
    pc,          \* position of the main line and of the two directions
    exitCode,    \* the process' exit code, meaningful once pc.main = "exited"
    conn,        \* the net.Conn: state, Close calls, effective releases
    connectCalls,\* number of calls of connect
    remoteSent,  \* all the bytes the remote peer sends on the connection
    inPos,       \* how many of them the inbound direction has read
    stdinData,   \* all the bytes available on local input
    outPos,      \* how many of them the outbound direction has read
    stdout,      \* what has been written to standard output
    stderr,      \* what has been written to standard error
    connOut,     \* what has been written to the connection
    wbuf,        \* the bufio.Writer's buffer (exitRelay)
    inBuf,       \* buf[:n] of the inbound direction's last read
    inErr,       \* err of the inbound direction's last read
    inWriteErr,  \* writeErr of the inbound direction's last write
    outBuf,      \* buf[:n] of the outbound direction's last read
    outErr,      \* err of the outbound direction's last read
    outWriteErr, \* writeErr/flushErr of the outbound direction's last write
    onceDone,    \* sync.Once: the done flag
    done,        \* the done channel: closed or not, close count, receives
    panicked     \* a runtime panic (close of a closed channel) happened

vars == <<variant, flagsResult, timeoutFlag, args, cfg, pc, exitCode, conn,
          connectCalls, remoteSent, inPos, stdinData, outPos, stdout, stderr,
          connOut, wbuf, inBuf, inErr, inWriteErr, outBuf, outErr,
          outWriteErr, onceDone, done, panicked>>

(***************************************************************************)
(* Bounds                                                                  *)
(***************************************************************************)
\* longest byte sequence on local input and from the remote peer
MaxLen == 3
\* size of the read buffer (1024 in the source), scaled down
BufSize == 2

\* The relay never looks at the value of a byte, so every byte of a stream
\* is given a value of its own: a byte lost, repeated, out of order or sent
\* the wrong way then shows.
RemoteBytes == <<"r1", "r2", "r3", "r4">>
LocalBytes == <<"l1", "l2", "l3", "l4">>

RemoteSeqs == {SubSeq(RemoteBytes, 1, n) : n \in 0..MaxLen}
LocalSeqs == {SubSeq(LocalBytes, 1, n) : n \in 0..MaxLen}

Min(a, b) == IF a < b THEN a ELSE b

IsPrefix(s, t) == Len(s) <= Len(t) /\ SubSeq(t, 1, Len(s)) = s

(***************************************************************************)
(* Command line                                                            *)
(***************************************************************************)
Variants == {"connectOnly", "exitRelay", "onceRelay"}

\* flag.Parse(): the options parse, or an option is malformed or unknown,
\* or -h / -help is given
FlagsResults == {"ok", "bad", "help"}

DefaultTimeout == 10
Timeouts == {0, DefaultTimeout}

PortMin == 1
PortMax == 65535

Host == <<"h">>

\* port arguments, as sequences of characters
PortStrs == { <<"0">>, <<"1">>, <<"6","5","5","3","5">>, <<"6","5","5","3","6">>,
              <<"7","0","0","0","0">>, <<"a","b","c">>, <<"-","1">>, <<"8","x">>,
              <<>> }

ArgLists == { <<>>, <<Host>> }
            \cup { <<Host, p>> : p \in PortStrs }
            \cup { <<Host, p, <<"x">> >> : p \in {<<"1">>, <<"0">>} }

DigitChars == <<"0", "1", "2", "3", "4", "5", "6", "7", "8", "9">>

IsDigit(c) == \E i \in 1..10 : DigitChars[i] = c

DigitVal(c) == (CHOOSE i \in 1..10 : DigitChars[i] = c) - 1

RECURSIVE DecimalVal(_)
DecimalVal(s) ==
    IF s = <<>> THEN 0
    ELSE 10 * DecimalVal(SubSeq(s, 1, Len(s) - 1)) + DigitVal(s[Len(s)])

\* strconv.Atoi: an optional sign followed by one or more decimal digits
Atoi(s) ==
    LET signed == s # <<>> /\ s[1] \in {"-", "+"}
        digits == IF signed THEN Tail(s) ELSE s
    IN  IF digits = <<>> \/ \E i \in 1..Len(digits) : ~IsDigit(digits[i])
        THEN [ok |-> FALSE, val |-> 0]
        ELSE [ok |-> TRUE,
              val |-> IF signed /\ s[1] = "-" THEN 0 - DecimalVal(digits)
                      ELSE DecimalVal(digits)]

PortInRange(port) == ~(port < PortMin \/ port > PortMax)

NoConfig == [host |-> <<>>, port |-> 0, timeout |-> 0]

\* parseArgs after flag.Parse() returned: the error it returns, or the Config
parseArgs(a, t) ==
    IF Len(a) # 2 THEN [err |-> "arity", cfg |-> NoConfig]
    ELSE LET p == Atoi(a[2])
         IN  IF ~p.ok THEN [err |-> "atoi", cfg |-> NoConfig]
             ELSE IF ~PortInRange(p.val) THEN [err |-> "range", cfg |-> NoConfig]
             ELSE [err |-> "nil",
                   cfg |-> [host |-> a[1], port |-> p.val, timeout |-> t]]

(***************************************************************************)
(* The connection and the streams                                          *)
(***************************************************************************)
NoConn == [state |-> "none", calls |-> 0, released |-> 0]

\* a Close that releases the socket again on every call
CloseEveryTime(c) ==
    [state |-> "closed", calls |-> c.calls + 1, released |-> c.released + 1]

\* conn.Close(): releases the socket on the first call, an error later
Close(c) ==
    [state    |-> "closed",
     calls    |-> c.calls + 1,
     released |-> IF c.state = "open" THEN c.released + 1 ELSE c.released]

\* results (n, err) a Read may return with `remaining` bytes still to come:
\* end-of-stream only once every byte has been handed over, an error at any
\* time; a read of a connection this process has closed, pending or new,
\* returns at once with net.ErrClosed
ReadResults(remaining, usable) ==
    IF ~usable THEN {[n |-> 0, err |-> "closed"]}
    ELSE {r \in [n : 0..Min(BufSize, remaining), err : {"nil", "EOF", "other"}] :
            r.err = "EOF" => r.n = remaining}

\* results of writing `chunk`: all of it, or an error after a strict prefix;
\* a write on a closed connection writes nothing
WriteResults(chunk, usable) ==
    IF ~usable THEN {[written |-> <<>>, err |-> TRUE]}
    ELSE {[written |-> chunk, err |-> FALSE]}
         \cup {[written |-> SubSeq(chunk, 1, k), err |-> TRUE] : k \in 0..(Len(chunk) - 1)}

Exited == pc.main = "exited"

(***************************************************************************)
(* Initial state: the process has been started with some command line      *)
(***************************************************************************)
Init ==
    /\ variant \in Variants
    /\ flagsResult \in FlagsResults
    /\ timeoutFlag \in Timeouts
    /\ args \in ArgLists
    /\ cfg = NoConfig
    /\ pc = [main |-> "parseArgs", in |-> "idle", out |-> "idle"]
    /\ exitCode = 0
    /\ conn = NoConn
    /\ connectCalls = 0
    /\ remoteSent = <<>>
    /\ inPos = 0
    /\ stdinData = <<>>
    /\ outPos = 0
    /\ stdout = <<>>
    /\ stderr = <<>>
    /\ connOut = <<>>
    /\ wbuf = <<>>
    /\ inBuf = <<>>
    /\ inErr = "nil"
    /\ inWriteErr = FALSE
    /\ outBuf = <<>>
    /\ outErr = "nil"
    /\ outWriteErr = FALSE
    /\ onceDone = FALSE
    /\ done = [closed |-> FALSE, closes |-> 0, received |-> 0]
    /\ panicked = FALSE

cmdVars == <<variant, flagsResult, timeoutFlag, args>>
dataVars == <<remoteSent, stdinData>>
inVars == <<inPos, inBuf, inErr, inWriteErr>>
outVars == <<outPos, outBuf, outErr, outWriteErr, wbuf>>
sigVars == <<onceDone, done, panicked>>

\* os.Exit(code), and the return of main (code 0): the process is gone
ExitWith(code) ==
    /\ pc' = [pc EXCEPT !.main = "exited"]
    /\ exitCode' = code

(***************************************************************************)
(* main                                                                    *)
(***************************************************************************)
\* main: cfg, err := parseArgs(); on error report and os.Exit(1).
\* flag.Parse() on the default (ExitOnError) flag set leaves the process
\* itself: exit code 0 after -h, 2 after a malformed option.
MainParseArgs ==
    /\ pc.main = "parseArgs"
    /\ IF flagsResult = "bad"
       THEN /\ ExitWith(2)
            /\ stderr' = stderr \o <<"FlagError", "Usage">>
            /\ UNCHANGED <<cfg, stdout>>
       ELSE IF flagsResult = "help"
       THEN /\ ExitWith(0)
            /\ stderr' = Append(stderr, "Usage")
            /\ UNCHANGED <<cfg, stdout>>
       ELSE LET r == parseArgs(args, timeoutFlag)
            IN  IF r.err # "nil"
                THEN /\ ExitWith(1)
                     /\ stderr' = Append(stderr, "Error")
                     /\ UNCHANGED <<cfg, stdout>>
                ELSE /\ cfg' = r.cfg
                     /\ pc' = [pc EXCEPT !.main = "connect"]
                     /\ stdout' = IF variant = "onceRelay" THEN stdout
                                  ELSE Append(stdout, "Config")
                     /\ UNCHANGED <<exitCode, stderr>>
    /\ UNCHANGED <<cmdVars, conn, connectCalls, dataVars, inVars, outVars,
                   connOut, sigVars>>

\* main: conn, err := connect(cfg); on error report and os.Exit(1);
\* otherwise defer conn.Close() (and announce the connection on stderr).
\* The peer accepts, refuses (or the name does not resolve), or never
\* answers; in the last case dialer.Dial stays blocked
MainConnect ==
    /\ pc.main = "connect"
    /\ connectCalls' = connectCalls + 1
    /\ \E peer \in {"accepts", "refuses", "silent"} :
         IF peer = "accepts"
         THEN /\ conn' = [NoConn EXCEPT !.state = "open"]
              /\ \E rs \in RemoteSeqs, sd \in LocalSeqs :
                   /\ remoteSent' = rs
                   /\ stdinData' = sd
              /\ pc' = [pc EXCEPT !.main =
                          IF variant = "connectOnly" THEN "return" ELSE "startIO"]
              /\ stderr' = IF variant = "onceRelay" THEN stderr
                           ELSE Append(stderr, "Connected")
              /\ UNCHANGED exitCode
         ELSE IF peer = "refuses"
         THEN /\ ExitWith(1)
              /\ stderr' = Append(stderr, "Error")
              /\ UNCHANGED <<conn, dataVars>>
         ELSE /\ pc' = [pc EXCEPT !.main = "dialing"]
              /\ UNCHANGED <<exitCode, stderr, conn, dataVars>>
    /\ UNCHANGED <<cmdVars, cfg, inVars, outVars, stdout, connOut, sigVars>>

\* net.Dialer: Timeout is the longest a dial waits; zero means no timeout
DialHasDeadline(c) == c.timeout # 0

\* connect: the Dialer's deadline passes, Dial returns a timeout error, main
\* reports it and os.Exit(1)
MainDialTimeout ==
    /\ pc.main = "dialing"
    /\ DialHasDeadline(cfg)
    /\ ExitWith(1)
    /\ stderr' = Append(stderr, "Error")
    /\ UNCHANGED <<cmdVars, cfg, conn, connectCalls, dataVars, inVars, outVars,
                   stdout, connOut, sigVars>>

\* connect: the operating system gives up the connection attempt by itself
\* (it may, the program does not ask for it); Dial returns its error, main
\* reports it and os.Exit(1)
OsDialAbort ==
    /\ pc.main = "dialing"
    /\ ExitWith(1)
    /\ stderr' = Append(stderr, "Error")
    /\ UNCHANGED <<cmdVars, cfg, conn, connectCalls, dataVars, inVars, outVars,
                   stdout, connOut, sigVars>>

\* startIO up to its blocking point: the goroutine(s) are started; in the
\* exitRelay build the outbound loop runs on the main line itself
StartIO ==
    /\ pc.main = "startIO"
    /\ pc' = [main |-> IF variant = "onceRelay" THEN "waitDone" ELSE "relay",
              in |-> "read", out |-> "read"]
    /\ UNCHANGED <<cmdVars, cfg, exitCode, conn, connectCalls, dataVars, inVars,
                   outVars, stdout, stderr, connOut, sigVars>>

\* a main line that goes on without waiting for the done channel
MainWaitDoneNoWait ==
    /\ pc.main = "waitDone"
    /\ done' = [done EXCEPT !.received = @ + 1]
    /\ pc' = [pc EXCEPT !.main = "closeConn"]
    /\ UNCHANGED <<cmdVars, cfg, exitCode, conn, connectCalls, dataVars, inVars,
                   outVars, stdout, stderr, connOut, onceDone, panicked>>

\* startIO: <-done
MainWaitDone ==
    /\ pc.main = "waitDone"
    /\ done.closed
    /\ done' = [done EXCEPT !.received = @ + 1]
    /\ pc' = [pc EXCEPT !.main = "closeConn"]
    /\ UNCHANGED <<cmdVars, cfg, exitCode, conn, connectCalls, dataVars, inVars,
                   outVars, stdout, stderr, connOut, onceDone, panicked>>

\* a relay that returns to main without closing the connection
MainCloseConnSkip ==
    /\ pc.main = "closeConn"
    /\ pc' = [pc EXCEPT !.main = "return"]
    /\ UNCHANGED <<cmdVars, cfg, exitCode, conn, connectCalls, dataVars, inVars,
                   outVars, stdout, stderr, connOut, sigVars>>

\* startIO: conn.Close(), then return to main
MainCloseConn ==
    /\ pc.main = "closeConn"
    /\ conn' = Close(conn)
    /\ pc' = [pc EXCEPT !.main = "return"]
    /\ UNCHANGED <<cmdVars, cfg, exitCode, connectCalls, dataVars, inVars,
                   outVars, stdout, stderr, connOut, sigVars>>

\* main returns: the deferred conn.Close() runs, the process exits with 0
MainReturn ==
    /\ pc.main = "return"
    /\ conn' = Close(conn)
    /\ ExitWith(0)
    /\ UNCHANGED <<cmdVars, cfg, connectCalls, dataVars, inVars, outVars,
                   stdout, stderr, connOut, sigVars>>

(***************************************************************************)
(* The shutdown signal of the onceRelay build                              *)
(***************************************************************************)
\* once.Do(f), fast path: f is skipped when the done flag is already set
OnceFast(g) ==
    /\ pc[g] = "closeDone"
    /\ pc' = [pc EXCEPT ![g] = IF onceDone THEN "stopped" ELSE "doSlow"]
    /\ UNCHANGED <<cmdVars, cfg, exitCode, conn, connectCalls, dataVars, inVars,
                   outVars, stdout, stderr, connOut, sigVars>>

\* close(done): closing a closed channel panics
CloseChan(d) ==
    [panic |-> d.closed,
     chan  |-> IF d.closed THEN d ELSE [d EXCEPT !.closed = TRUE, !.closes = @ + 1]]

\* a guard that does not look at the flag again once it holds the mutex
DoSlowNoRecheck(flag, d) ==
    [flag |-> TRUE, panic |-> CloseChan(d).panic, chan |-> CloseChan(d).chan]

\* once.doSlow under the Once's mutex: f runs only if the flag is still unset
DoSlow(flag, d) ==
    IF flag THEN [flag |-> TRUE, panic |-> FALSE, chan |-> d]
    ELSE [flag |-> TRUE, panic |-> CloseChan(d).panic, chan |-> CloseChan(d).chan]

\* once.Do(f), slow path, then the direction returns; a panic ends the
\* process with exit code 2
OnceSlow(g) ==
    /\ pc[g] = "doSlow"
    /\ LET r == DoSlow(onceDone, done)
       IN  /\ onceDone' = r.flag
           /\ done' = r.chan
           /\ panicked' = (panicked \/ r.panic)
           /\ IF r.panic
              THEN /\ pc' = [pc EXCEPT ![g] = "stopped", !.main = "exited"]
                   /\ exitCode' = 2
              ELSE /\ pc' = [pc EXCEPT ![g] = "stopped"]
                   /\ UNCHANGED exitCode
    /\ UNCHANGED <<cmdVars, cfg, conn, connectCalls, dataVars, inVars, outVars,
                   stdout, stderr, connOut>>

\* how a direction ends the session: closeDone() and return in the onceRelay
\* build, os.Exit(0) in the exitRelay build
EndSession(g) ==
    IF variant = "onceRelay"
    THEN /\ pc' = [pc EXCEPT ![g] = "closeDone"]
         /\ UNCHANGED exitCode
    ELSE /\ pc' = [pc EXCEPT ![g] = "stopped", !.main = "exited"]
         /\ exitCode' = 0

(***************************************************************************)
(* Inbound direction: connection -> standard output                        *)
(***************************************************************************)
\* an inbound loop that looks at err before it writes the bytes it got
InReadErrFirst ==
    /\ ~Exited
    /\ pc.in = "read"
    /\ \E r \in ReadResults(Len(remoteSent) - inPos, conn.state = "open") :
         /\ inBuf' = SubSeq(remoteSent, inPos + 1, inPos + r.n)
         /\ inErr' = r.err
         /\ inPos' = inPos + r.n
         /\ pc' = [pc EXCEPT !.in = IF r.n > 0 /\ r.err = "nil" THEN "write"
                                    ELSE "checkErr"]
    /\ inWriteErr' = FALSE
    /\ UNCHANGED <<cmdVars, cfg, exitCode, conn, connectCalls, dataVars, outVars,
                   stdout, stderr, connOut, sigVars>>

\* n, err := conn.Read(buf)    (reader.Read(buf) in the exitRelay build)
InRead ==
    /\ ~Exited
    /\ pc.in = "read"
    /\ \E r \in ReadResults(Len(remoteSent) - inPos, conn.state = "open") :
         /\ inBuf' = SubSeq(remoteSent, inPos + 1, inPos + r.n)
         /\ inErr' = r.err
         /\ inPos' = inPos + r.n
         /\ pc' = [pc EXCEPT !.in = IF r.n > 0 THEN "write" ELSE "checkErr"]
    /\ inWriteErr' = FALSE
    /\ UNCHANGED <<cmdVars, cfg, exitCode, conn, connectCalls, dataVars, outVars,
                   stdout, stderr, connOut, sigVars>>

\* what is left in buf behind the n bytes of the last read
StaleTail(chunk) == [i \in 1..(BufSize - Len(chunk)) |-> "00"]

\* an inbound direction that writes buf, not buf[:n]
InWriteWholeBuf ==
    /\ ~Exited
    /\ pc.in = "write"
    /\ \E w \in WriteResults(inBuf \o StaleTail(inBuf), TRUE) :
         /\ stdout' = stdout \o w.written
         /\ inWriteErr' = w.err
         /\ IF w.err THEN EndSession("in")
            ELSE pc' = [pc EXCEPT !.in = "checkErr"] /\ UNCHANGED exitCode
    /\ UNCHANGED <<cmdVars, cfg, conn, connectCalls, dataVars, inPos, inBuf, inErr,
                   outVars, stderr, connOut, sigVars>>

\* an inbound direction that returns after a failed write without ending
\* the session
InWriteNoSignal ==
    /\ ~Exited
    /\ pc.in = "write"
    /\ \E w \in WriteResults(inBuf, TRUE) :
         /\ stdout' = stdout \o w.written
         /\ inWriteErr' = w.err
         /\ pc' = [pc EXCEPT !.in = IF w.err THEN "stopped" ELSE "checkErr"]
    /\ UNCHANGED <<cmdVars, cfg, exitCode, conn, connectCalls, dataVars, inPos,
                   inBuf, inErr, outVars, stderr, connOut, sigVars>>

\* if n > 0: os.Stdout.Write(buf[:n]); a write error ends the session
InWrite ==
    /\ ~Exited
    /\ pc.in = "write"
    /\ \E w \in WriteResults(inBuf, TRUE) :
         /\ stdout' = stdout \o w.written
         /\ inWriteErr' = w.err
         /\ IF w.err THEN EndSession("in")
            ELSE pc' = [pc EXCEPT !.in = "checkErr"] /\ UNCHANGED exitCode
    /\ UNCHANGED <<cmdVars, cfg, conn, connectCalls, dataVars, inPos, inBuf, inErr,
                   outVars, stderr, connOut, sigVars>>

\* an inbound direction that takes a read of no bytes for the end of the
\* stream
InCheckErrZeroIsEOF ==
    /\ ~Exited
    /\ pc.in = "checkErr"
    /\ IF inErr # "nil" \/ inBuf = <<>> THEN EndSession("in")
       ELSE pc' = [pc EXCEPT !.in = "read"] /\ UNCHANGED exitCode
    /\ UNCHANGED <<cmdVars, cfg, conn, connectCalls, dataVars, inVars, outVars,
                   stdout, stderr, connOut, sigVars>>

\* an inbound direction that ends only at end-of-stream and reads again
\* after any other error
InCheckErrRetry ==
    /\ ~Exited
    /\ pc.in = "checkErr"
    /\ IF inErr = "EOF" THEN EndSession("in")
       ELSE pc' = [pc EXCEPT !.in = "read"] /\ UNCHANGED exitCode
    /\ UNCHANGED <<cmdVars, cfg, conn, connectCalls, dataVars, inVars, outVars,
                   stdout, stderr, connOut, sigVars>>

\* an inbound direction that returns on an error without ending the session
InCheckErrNoSignal ==
    /\ ~Exited
    /\ pc.in = "checkErr"
    /\ pc' = [pc EXCEPT !.in = IF inErr # "nil" THEN "stopped" ELSE "read"]
    /\ UNCHANGED <<cmdVars, cfg, exitCode, conn, connectCalls, dataVars, inVars,
                   outVars, stdout, stderr, connOut, sigVars>>

\* if err != nil: end the session; otherwise read again
InCheckErr ==
    /\ ~Exited
    /\ pc.in = "checkErr"
    /\ IF inErr # "nil" THEN EndSession("in")
       ELSE pc' = [pc EXCEPT !.in = "read"] /\ UNCHANGED exitCode
    /\ UNCHANGED <<cmdVars, cfg, conn, connectCalls, dataVars, inVars, outVars,
                   stdout, stderr, connOut, sigVars>>

(***************************************************************************)
(* Outbound direction: standard input -> connection                        *)
(***************************************************************************)
\* an outbound loop that looks at err before it writes the bytes it got
OutReadErrFirst ==
    /\ ~Exited
    /\ pc.out = "read"
    /\ \E r \in ReadResults(Len(stdinData) - outPos, TRUE) :
         /\ outBuf' = SubSeq(stdinData, outPos + 1, outPos + r.n)
         /\ outErr' = r.err
         /\ outPos' = outPos + r.n
         /\ pc' = [pc EXCEPT !.out = IF r.n > 0 /\ r.err = "nil" THEN "write"
                                     ELSE "checkErr"]
    /\ outWriteErr' = FALSE
    /\ UNCHANGED <<cmdVars, cfg, exitCode, conn, connectCalls, dataVars, inVars,
                   wbuf, stdout, stderr, connOut, sigVars>>

\* n, err := os.Stdin.Read(buf)   (stdinReader.Read(buf) in exitRelay)
OutRead ==
    /\ ~Exited
    /\ pc.out = "read"
    /\ \E r \in ReadResults(Len(stdinData) - outPos, TRUE) :
         /\ outBuf' = SubSeq(stdinData, outPos + 1, outPos + r.n)
         /\ outErr' = r.err
         /\ outPos' = outPos + r.n
         /\ pc' = [pc EXCEPT !.out = IF r.n > 0 THEN "write" ELSE "checkErr"]
    /\ outWriteErr' = FALSE
    /\ UNCHANGED <<cmdVars, cfg, exitCode, conn, connectCalls, dataVars, inVars,
                   wbuf, stdout, stderr, connOut, sigVars>>

\* onceRelay, if n > 0: conn.Write(buf[:n]); a write error ends the session
OutWrite ==
    /\ ~Exited
    /\ variant = "onceRelay"
    /\ pc.out = "write"
    /\ \E w \in WriteResults(outBuf, conn.state = "open") :
         /\ connOut' = connOut \o w.written
         /\ outWriteErr' = w.err
         /\ IF w.err THEN EndSession("out")
            ELSE pc' = [pc EXCEPT !.out = "checkErr"] /\ UNCHANGED exitCode
    /\ UNCHANGED <<cmdVars, cfg, conn, connectCalls, dataVars, inVars, outPos,
                   outBuf, outErr, wbuf, stdout, stderr, sigVars>>

\* an outbound direction that leaves the chunk in the bufio.Writer
OutBufWriteNoFlush ==
    /\ ~Exited
    /\ variant = "exitRelay"
    /\ pc.out = "write"
    /\ wbuf' = wbuf \o outBuf
    /\ pc' = [pc EXCEPT !.out = "checkErr"]
    /\ UNCHANGED <<cmdVars, cfg, exitCode, conn, connectCalls, dataVars, inVars,
                   outPos, outBuf, outErr, outWriteErr, stdout, stderr, connOut,
                   sigVars>>

\* exitRelay, if n > 0: writer.Write(buf[:n]). The bufio.Writer is empty and
\* error-free before each Write and the chunk is smaller than its buffer,
\* so the chunk is only buffered and no error is returned
OutBufWrite ==
    /\ ~Exited
    /\ variant = "exitRelay"
    /\ pc.out = "write"
    /\ wbuf' = wbuf \o outBuf
    /\ pc' = [pc EXCEPT !.out = "flush"]
    /\ UNCHANGED <<cmdVars, cfg, exitCode, conn, connectCalls, dataVars, inVars,
                   outPos, outBuf, outErr, outWriteErr, stdout, stderr, connOut,
                   sigVars>>

\* exitRelay: writer.Flush() hands the buffer to conn.Write; on an error
\* os.Exit(0)
OutFlush ==
    /\ ~Exited
    /\ pc.out = "flush"
    /\ \E w \in WriteResults(wbuf, conn.state = "open") :
         /\ connOut' = connOut \o w.written
         /\ wbuf' = SubSeq(wbuf, Len(w.written) + 1, Len(wbuf))
         /\ outWriteErr' = w.err
         /\ IF w.err THEN EndSession("out")
            ELSE pc' = [pc EXCEPT !.out = "checkErr"] /\ UNCHANGED exitCode
    /\ UNCHANGED <<cmdVars, cfg, conn, connectCalls, dataVars, inVars, outPos,
                   outBuf, outErr, stdout, stderr, sigVars>>

\* an os.Exit build that closes the connection on every error of the read
\* of local input, not only at end-of-input
OutCheckErrCloseOnAnyErr ==
    /\ ~Exited
    /\ pc.out = "checkErr"
    /\ IF outErr = "nil" THEN pc' = [pc EXCEPT !.out = "read"] /\ UNCHANGED exitCode
       ELSE IF variant = "exitRelay"
       THEN pc' = [pc EXCEPT !.out = "closeConn"] /\ UNCHANGED exitCode
       ELSE EndSession("out")
    /\ UNCHANGED <<cmdVars, cfg, conn, connectCalls, dataVars, inVars, outVars,
                   stdout, stderr, connOut, sigVars>>

\* an outbound direction that returns on an error without ending the session
OutCheckErrNoSignal ==
    /\ ~Exited
    /\ pc.out = "checkErr"
    /\ pc' = [pc EXCEPT !.out = IF outErr # "nil" THEN "stopped" ELSE "read"]
    /\ UNCHANGED <<cmdVars, cfg, exitCode, conn, connectCalls, dataVars, inVars,
                   outVars, stdout, stderr, connOut, sigVars>>

\* if err == io.EOF / if err != nil: end the session (in the exitRelay build
\* end-of-input first closes the connection); otherwise read again
OutCheckErr ==
    /\ ~Exited
    /\ pc.out = "checkErr"
    /\ IF outErr = "nil" THEN pc' = [pc EXCEPT !.out = "read"] /\ UNCHANGED exitCode
       ELSE IF outErr = "EOF" /\ variant = "exitRelay"
       THEN pc' = [pc EXCEPT !.out = "closeConn"] /\ UNCHANGED exitCode
       ELSE EndSession("out")
    /\ UNCHANGED <<cmdVars, cfg, conn, connectCalls, dataVars, inVars, outVars,
                   stdout, stderr, connOut, sigVars>>

\* exitRelay at end-of-input: conn.Close()
OutCloseConn ==
    /\ ~Exited
    /\ pc.out = "closeConn"
    /\ conn' = Close(conn)
    /\ pc' = [pc EXCEPT !.out = "exit"]
    /\ UNCHANGED <<cmdVars, cfg, exitCode, connectCalls, dataVars, inVars, outVars,
                   stdout, stderr, connOut, sigVars>>

\* exitRelay at end-of-input: os.Exit(0)
OutExit ==
    /\ ~Exited
    /\ pc.out = "exit"
    /\ pc' = [pc EXCEPT !.out = "stopped", !.main = "exited"]
    /\ exitCode' = 0
    /\ UNCHANGED <<cmdVars, cfg, conn, connectCalls, dataVars, inVars, outVars,
                   stdout, stderr, connOut, sigVars>>

(***************************************************************************)
(* Specifications                                                          *)
(***************************************************************************)
InboundStep == \/ InWrite \/ InCheckErr
               \/ (~Exited /\ (OnceFast("in") \/ OnceSlow("in")))

OutboundStep == \/ OutWrite \/ OutBufWrite \/ OutFlush \/ OutCheckErr
                \/ OutCloseConn \/ OutExit
                \/ (~Exited /\ (OnceFast("out") \/ OnceSlow("out")))

MainStep == \/ MainParseArgs \/ MainConnect \/ MainDialTimeout \/ StartIO
            \/ MainWaitDone \/ MainCloseConn \/ MainReturn

Next ==
    \/ MainParseArgs
    \/ MainConnect
    \/ MainDialTimeout
    \/ OsDialAbort
    \/ StartIO
    \/ MainWaitDone
    \/ MainCloseConn
    \/ MainReturn
    \/ InRead
    \/ InWrite
    \/ InCheckErr
    \/ OutRead
    \/ OutWrite
    \/ OutBufWrite
    \/ OutFlush
    \/ OutCheckErr
    \/ OutCloseConn
    \/ OutExit
    \/ \E g \in {"in", "out"} : ~Exited /\ OnceFast(g)
    \/ \E g \in {"in", "out"} : ~Exited /\ OnceSlow(g)

Spec == Init /\ [][Next]_vars

\* The relay never reads the Config, so progress is looked at for one
\* accepted port with either timeout (and every rejected command line)
LiveInit ==
    /\ Init
    /\ parseArgs(args, timeoutFlag).err = "nil" => args = <<Host, <<"1">> >>

\* The Go scheduler runs every runnable goroutine; a Read may block forever
FairSpec ==
    /\ LiveInit
    /\ [][Next]_vars
    /\ WF_vars(MainStep)
    /\ WF_vars(InboundStep)
    /\ WF_vars(OutboundStep)

(***************************************************************************)
(* Properties                                                              *)
(***************************************************************************)
RelayBuild == variant \in {"exitRelay", "onceRelay"}
SessionStarted == pc.in # "idle"
AfterCloseDone(g) == variant = "onceRelay" /\ pc[g] = "stopped"

\* C1: idempotent shutdown. However the two directions' calls of closeDone
\* interleave, the done channel is closed at most once and never closed
\* again (no panic), it has been closed exactly once as soon as one
\* direction has returned from closeDone, and the main line receives the
\* shutdown event exactly once before it goes on.
C1_IdempotentShutdown ==
    /\ done.closes <= 1
    /\ ~panicked
    /\ done.received <= 1
    /\ (AfterCloseDone("in") \/ AfterCloseDone("out"))
          => (done.closed /\ done.closes = 1 /\ onceDone)
    /\ (variant = "onceRelay" /\ pc.main \in {"closeConn", "return"})
          => (done.closes = 1 /\ done.received = 1)
    /\ (variant = "onceRelay" /\ Exited /\ SessionStarted)
          => (done.closes = 1 /\ done.received = 1)

\* both directions have called closeDone and returned, and main has gone on
C1_Witness ==
    /\ AfterCloseDone("in")
    /\ AfterCloseDone("out")
    /\ done.closes = 1
    /\ done.received = 1

ExitedOk == Exited /\ exitCode = 0

\* the inbound read has returned end-of-stream or an error
InboundReadFailed == SessionStarted /\ pc.in \in {"write", "checkErr"} /\ inErr # "nil"

\* C3: prompt termination on remote close. Once the inbound read has
\* returned end-of-stream or an error, the process eventually exits with
\* code 0, also when the outbound direction stays blocked in its read.
C3_RemoteCloseTerminates == InboundReadFailed ~> ExitedOk

\* the process has exited with 0 after the remote's end-of-stream while the
\* outbound direction never got a byte and is still in its first read
C3_Witness ==
    /\ ExitedOk
    /\ RelayBuild
    /\ inErr = "EOF"
    /\ pc.out = "read"
    /\ outPos = 0
    /\ outErr = "nil"
    /\ stdinData # <<>>

\* the read of local input has returned end-of-stream
OutboundReadEOF ==
    SessionStarted /\ pc.out \in {"write", "flush", "checkErr"} /\ outErr = "EOF"

\* C4: prompt termination on local end-of-input. Once the read of local
\* input has returned end-of-stream, the process eventually exits with
\* code 0, also when the inbound direction stays blocked in its read.
C4_LocalEOFTerminates == OutboundReadEOF ~> ExitedOk

\* the process has exited with 0 after local end-of-input while the inbound
\* direction never got a byte and is still in its first read
C4_Witness ==
    /\ ExitedOk
    /\ RelayBuild
    /\ outErr = "EOF"
    /\ pc.in = "read"
    /\ inPos = 0
    /\ inErr = "nil"
    /\ remoteSent # <<>>

\* the outbound direction has got end-of-input from its read and has handed
\* every chunk it read to the connection without a write error
OutboundCleanEOF ==
    /\ outErr = "EOF"
    /\ ~outWriteErr
    /\ pc.out \in {"checkErr", "closeConn", "exit", "closeDone", "doSlow", "stopped"}

\* C5 as claimed: when the process of a started session has terminated, the
\* whole of local input has been written to the connection.
C5_AllInputSentAtExit ==
    (Exited /\ SessionStarted) => connOut = stdinData

\* C5, amended: what has been written to the connection is always a prefix
\* of local input, and it is the whole of local input once the outbound
\* direction has read end-of-input with no write error (so also when the
\* process terminates after that).
C5_InputSentUpToEOF ==
    /\ IsPrefix(connOut, stdinData)
    /\ OutboundCleanEOF => connOut = stdinData

\* the session ended by local end-of-input with two bytes relayed
C5_Witness ==
    /\ Exited
    /\ OutboundCleanEOF
    /\ pc.out = "stopped"
    /\ Len(stdinData) >= 2
    /\ connOut = stdinData

\* what the build writes to standard output before the relay starts
StartupText == IF variant = "onceRelay" THEN <<>> ELSE <<"Config">>

\* the inbound direction has got end-of-stream from its read and has written
\* every chunk it read to standard output without a write error
InboundCleanEOF ==
    /\ inErr = "EOF"
    /\ ~inWriteErr
    /\ pc.in \in {"checkErr", "closeDone", "doSlow", "stopped"}

\* C6 as claimed: when the process of a started session has terminated,
\* standard output holds (after the build's startup text) exactly the bytes
\* the remote peer sent, whichever direction ended the session.
C6_AllRemoteBytesAtExit ==
    (Exited /\ SessionStarted) => stdout = StartupText \o remoteSent

\* C6, amended: after the build's startup text, standard output is always
\* a prefix of what the remote peer sent, and it is all of it once the
\* inbound direction has read end-of-stream with no write error (so also
\* when the process terminates after that).
C6_RemoteBytesUpToEOF ==
    /\ cfg # NoConfig => IsPrefix(StartupText, stdout)
    /\ IsPrefix(stdout, StartupText \o remoteSent)
    /\ InboundCleanEOF => stdout = StartupText \o remoteSent

\* the session ended by the remote's end-of-stream with two bytes relayed
C6_Witness ==
    /\ Exited
    /\ InboundCleanEOF
    /\ pc.in = "stopped"
    /\ Len(remoteSent) >= 2
    /\ stdout = StartupText \o remoteSent

\* the process ended before any connection existed
EndedBeforeConnection == Exited /\ conn.state = "none"

\* C7 as claimed: the exit code is 0 when the connection was established
\* and the session completed, 1 when the run ended by an argument error, an
\* invalid port or a connect failure, and never anything else.
C7_ExitCodes ==
    Exited =>
        /\ exitCode \in {0, 1}
        /\ conn.state # "none" => exitCode = 0
        /\ (EndedBeforeConnection /\ flagsResult # "help") => exitCode = 1

\* the port argument is a decimal number between 1 and 65535
PortArgValid(a) == Atoi(a).ok /\ Atoi(a).val >= 1 /\ Atoi(a).val <= 65535

ArgsValid == Len(args) = 2 /\ PortArgValid(args[2])

\* C8 as claimed: a run whose positional arguments are not exactly two, or
\* whose port is non-numeric or outside 1..65535, never calls connect and
\* exits with code 1; a run with two arguments and a port in 1..65535 goes
\* on to connect.
C8_ArgValidation ==
    /\ ~ArgsValid => (connectCalls = 0 /\ conn.state = "none"
                      /\ (Exited => exitCode = 1))
    /\ (ArgsValid /\ pc.main # "parseArgs")
          => (pc.main = "connect" \/ connectCalls = 1)

\* C9 as claimed: when the process has terminated after a successful
\* connect, the connection has been closed.
C9_ClosedBeforeExit ==
    (Exited /\ conn.state # "none") => conn.state = "closed"

\* the Session Controller's state
Phase ==
    CASE pc.main = "parseArgs" -> "Idle"
      [] pc.main = "connect"   -> "Connecting"
      [] pc.main = "dialing"   -> "Connecting"
      [] pc.main = "exited"    -> "Terminated"
      [] OTHER                 -> "Relaying"

\* C10 as claimed: every step that changes the controller's state is one of
\* Idle -> Connecting -> Relaying -> Terminated or Connecting -> Terminated;
\* Terminated is entered from Connecting on a connect failure and from
\* Relaying after the shutdown signal fired; Relaying is entered after a
\* successful connect; nothing leaves Terminated.
C10_StateMachine ==
    [][ /\ Phase # "Terminated"
        /\ Phase' # Phase =>
              <<Phase, Phase'>> \in { <<"Idle", "Connecting">>,
                                      <<"Connecting", "Relaying">>,
                                      <<"Connecting", "Terminated">>,
                                      <<"Relaying", "Terminated">> }
        /\ (Phase = "Connecting" /\ Phase' = "Terminated") => conn'.state = "none"
        /\ (Phase = "Connecting" /\ Phase' = "Relaying") => conn'.state = "open"
        /\ (Phase = "Relaying" /\ Phase' = "Terminated" /\ RelayBuild)
              => done.closed
      ]_vars

\* C10, amended: the controller's state only moves forward through Idle,
\* Connecting, Relaying, Terminated, and nothing leaves Terminated, which
\* is the only state without a next step. Terminated is entered from Idle
\* when the command line is rejected (connect is never called), from
\* Connecting on a connect failure (exit code 1), or from Relaying, the
\* stretch after a successful connect; the sync.Once build leaves Relaying
\* only after the shutdown signal has fired and main has received it.
C10_StateMachineWithRejection ==
    /\ [](Exited \/ ENABLED Next)
    /\ [][ /\ Phase # "Terminated"
           /\ Phase' # Phase =>
                 <<Phase, Phase'>> \in { <<"Idle", "Connecting">>,
                                         <<"Idle", "Terminated">>,
                                         <<"Connecting", "Relaying">>,
                                         <<"Connecting", "Terminated">>,
                                         <<"Relaying", "Terminated">> }
           /\ (Phase = "Idle" /\ Phase' = "Terminated") => connectCalls' = 0
           /\ (Phase = "Connecting" /\ Phase' = "Terminated")
                 => (conn'.state = "none" /\ exitCode' = 1)
           /\ (Phase = "Connecting" /\ Phase' = "Relaying")
                 => (conn'.state = "open" /\ connectCalls' = 1)
           /\ (Phase = "Relaying" /\ Phase' = "Terminated" /\ variant = "onceRelay")
                 => (done.closed /\ done.received = 1 /\ exitCode' = 0)
         ]_vars

\* a run of the sync.Once build that went through all four states
C10_Witness ==
    /\ variant = "onceRelay"
    /\ Phase = "Terminated"
    /\ SessionStarted
    /\ done.closed
    /\ done.received = 1


\* C11 as claimed: every byte on standard output is a byte the inbound
\* direction read from the connection, in no run is anything else written
\* to standard output.
C11_StdoutOnlyRemoteBytes ==
    IsPrefix(stdout, SubSeq(remoteSent, 1, inPos))

\* the relay of the sync.Once build has returned to main
RelayReturned == variant = "onceRelay" /\ pc.main = "return"

\* C12: relay join ordering in the sync.Once build. While startIO waits the
\* relay has not closed the connection; it goes on only when the shutdown
\* signal has fired; it has closed the connection (once) when it returns.
C12_FireCloseReturn ==
    variant = "onceRelay" =>
        /\ pc.main \in {"startIO", "waitDone"} => (conn.calls = 0 /\ conn.state = "open")
        /\ pc.main = "closeConn"
              => (done.closed /\ done.received = 1 /\ conn.calls = 0)
        /\ pc.main = "return"
              => (done.closed /\ conn.calls = 1 /\ conn.state = "closed")
        /\ conn.calls >= 1 => done.closed

\* the signal fired, the relay closed the connection and returned
C12_Witness ==
    /\ RelayReturned
    /\ done.closed
    /\ conn.calls = 1
    /\ conn.state = "closed"

\* a direction that is still running: it has not returned and not ended
\* the process
Running(g) == pc[g] \notin {"idle", "stopped"}

C14_NoReadInterrupted ==
    /\ inErr # "closed"
    /\ outErr # "closed"

\* C14, amended: the relay never makes the outbound direction's read of
\* local input return. Its conn.Close() makes the inbound direction's read
\* of the connection return with an error, but only after the session has
\* been ended: in the sync.Once build after the signal fired and main
\* received it, in the os.Exit build after local end-of-input.
C14_ReadInterruptedOnlyByClose ==
    /\ outErr # "closed"
    /\ inErr = "closed" =>
          /\ conn.state = "closed"
          /\ inBuf = <<>>
          /\ variant = "onceRelay"
                => (done.closed /\ done.received = 1 /\ pc.main \in {"return", "exited"})
          /\ variant = "exitRelay"
                => (outErr = "EOF" /\ pc.out \in {"exit", "stopped"})

\* the outbound direction ended the session, the relay closed the
\* connection, and the inbound direction's read returned because of it
C14_Witness ==
    /\ variant = "onceRelay"
    /\ inErr = "closed"
    /\ pc.out = "stopped"
    /\ pc.main = "return"


\* steps of the two directions: a read returns, a write (or flush) returns
InReadStep == pc.in = "read" /\ pc'.in # "read"
InWriteStep == pc.in = "write" /\ pc'.in # "write"
OutReadStep == pc.out = "read" /\ pc'.out # "read"
OutWriteStep == pc.out \in {"write", "flush"} /\ pc'.out # pc.out

\* the direction's last read or write returned an error
InFailed == inErr # "nil" \/ inWriteErr
OutFailed == outErr # "nil" \/ outWriteErr

\* C15 as claimed: once a read or a write of a direction has returned an
\* error (end-of-stream included), that direction does no further read and
\* no further write.
C15_NothingAfterError ==
    [][ /\ InFailed => (~InReadStep /\ ~InWriteStep)
        /\ OutFailed => (~OutReadStep /\ ~OutWriteStep)
      ]_vars

\* C15, amended: once a read of a direction has returned an error, the
\* direction never reads again and writes nothing but the bytes that came
\* with that read; once a write has returned an error it neither reads nor
\* writes again; a direction that has stopped has ended the session.
C15_NoRetry ==
    /\ [][ /\ InFailed => ~InReadStep
           /\ inWriteErr => ~InWriteStep
           /\ (InWriteStep /\ inErr # "nil")
                 => (/\ \E k \in 0..Len(inBuf) : stdout' = stdout \o SubSeq(inBuf, 1, k)
                     /\ pc'.in \notin {"read", "write"})
           /\ OutFailed => ~OutReadStep
           /\ outWriteErr => ~OutWriteStep
           /\ (OutWriteStep /\ outErr # "nil")
                 => (/\ \E k \in 0..Len(outBuf) :
                          connOut' \o wbuf' = connOut \o wbuf \o SubSeq(outBuf, 1, k)
                     /\ pc'.out # "read")
         ]_vars
    /\ [](\A g \in {"in", "out"} : pc[g] = "stopped" => (Exited \/ done.closed))

\* the read of local input returned bytes together with an error; they were
\* sent, and the direction stopped without another read
C15_Witness ==
    /\ outErr = "other"
    /\ outBuf # <<>>
    /\ ~outWriteErr
    /\ pc.out = "stopped"
    /\ connOut = SubSeq(stdinData, 1, outPos)


\* dialer.Dial is blocked on a peer that never answers
DialBlocked == pc.main = "dialing"

\* C16 as claimed: for every timeout, 0 included, a connect to a peer that
\* never answers fails in the end, the relay is never started and the
\* process exits with code 1.
C16_SilentPeerFails ==
    DialBlocked ~> (Exited /\ exitCode = 1 /\ ~SessionStarted /\ conn.state = "none")

\* the first k bytes of a stream
Upto(stream, k) == SubSeq(stream, 1, k)

\* how many of the bytes read so far the inbound direction has written
InWritten(k) ==
    IF pc.in = "write" THEN k = inPos - Len(inBuf)
    ELSE IF inWriteErr THEN k >= inPos - Len(inBuf) /\ k < inPos
    ELSE k = inPos

\* how many of the bytes read so far the outbound direction has sent
OutWritten(k) ==
    IF pc.out \in {"write", "flush"} THEN k = outPos - Len(outBuf)
    ELSE IF outWriteErr THEN k >= outPos - Len(outBuf) /\ k < outPos
    ELSE k = outPos

\* C17: per-direction ordering. After the build's startup text standard
\* output holds exactly the first bytes of what the remote sent, the
\* connection has got exactly the first bytes of local input, in both
\* cases the chunks read so far less the one in hand (or less the part a
\* failed write did not take); every write adds one chunk, or a prefix of
\* it when it fails, and never a byte of another chunk.
C17_PrefixPerDirection ==
    /\ [](/\ IsPrefix(stdout, StartupText \o Upto(remoteSent, inPos))
          /\ IsPrefix(connOut, Upto(stdinData, outPos))
          /\ SessionStarted =>
                /\ \E k \in 0..inPos :
                     InWritten(k) /\ stdout = StartupText \o Upto(remoteSent, k)
                /\ \E k \in 0..outPos :
                     OutWritten(k) /\ connOut = Upto(stdinData, k))
    /\ [][ /\ InWriteStep =>
                \E k \in 0..Len(inBuf) : stdout' = stdout \o Upto(inBuf, k)
           /\ ~InWriteStep => stdout' = stdout \/ ~SessionStarted
           /\ OutWriteStep =>
                \E k \in 0..Len(outBuf) :
                    connOut' \o wbuf' = connOut \o wbuf \o Upto(outBuf, k)
           /\ ~OutWriteStep => connOut' = connOut
         ]_vars

\* both directions have relayed a second chunk after a first one
C17_Witness ==
    /\ Len(stdout) = Len(StartupText) + 3
    /\ Len(inBuf) = 1
    /\ Len(connOut) = 3
    /\ Len(outBuf) = 1

\* C18: outbound transmission is unbuffered across reads. Whenever the
\* outbound direction is about to read local input, every byte it has read
\* before has been handed to the connection and the bufio.Writer is empty.
C18_NothingHeldAcrossReads ==
    (RelayBuild /\ pc.out = "read") =>
        /\ wbuf = <<>>
        /\ connOut = Upto(stdinData, outPos)

\* the os.Exit build is about to read again after a written and flushed chunk
C18_Witness ==
    /\ variant = "exitRelay"
    /\ pc.out = "read"
    /\ outPos >= 1
    /\ ~Exited
    /\ connOut = Upto(stdinData, outPos)

\* a direction of the sync.Once relay has returned
DirectionStopped ==
    variant = "onceRelay" /\ (pc.in = "stopped" \/ pc.out = "stopped")

\* C19: every exit path of a direction of the sync.Once relay fires the
\* signal. A direction that has returned has called closeDone, so the done
\* channel is closed, main's receive can go on, and the process ends.
C19_StoppedDirectionHasFired ==
    /\ [](DirectionStopped =>
            /\ done.closed
            /\ onceDone
            /\ pc.main = "waitDone" => ENABLED MainWaitDone)
    /\ DirectionStopped ~> ExitedOk

\* the inbound direction returned after a failed write to standard output,
\* the outbound direction is still in its read, and the process has ended
C19_Witness ==
    /\ variant = "onceRelay"
    /\ inWriteErr
    /\ pc.in = "stopped"
    /\ pc.out = "read"
    /\ ExitedOk

\* the direction has left its loop to end the session
InEnding == pc.in \in {"closeDone", "doSlow", "stopped"}
OutEnding == pc.out \in {"closeConn", "exit", "closeDone", "doSlow", "stopped"}

\* C20: the final chunk is not dropped. A read that returns bytes is always
\* followed by the write of these bytes, whatever its err, before the
\* direction ends the session; a direction that ends with no failed write
\* has written every byte its reads returned; a read of 0 bytes with no
\* error writes nothing, fires nothing, and is followed by another read.
C20_FinalChunkWritten ==
    /\ [](/\ (InEnding /\ ~inWriteErr) => stdout = StartupText \o Upto(remoteSent, inPos)
          /\ (OutEnding /\ ~outWriteErr) => (connOut = Upto(stdinData, outPos) /\ wbuf = <<>>))
    /\ [][ /\ (InReadStep /\ inBuf' # <<>>) => pc'.in = "write"
           /\ (InReadStep /\ inBuf' = <<>>) => (pc'.in = "checkErr" /\ stdout' = stdout)
           /\ (InWriteStep /\ ~inWriteErr')
                 => (stdout' = stdout \o inBuf /\ pc'.in = "checkErr" /\ done' = done)
           /\ (pc.in = "checkErr" /\ pc'.in # "checkErr" /\ inErr = "nil")
                 => (pc'.in = "read" /\ stdout' = stdout /\ done' = done /\ ~Exited')
           /\ (OutReadStep /\ outBuf' # <<>>) => pc'.out = "write"
           /\ (OutReadStep /\ outBuf' = <<>>) => (pc'.out = "checkErr" /\ connOut' = connOut)
           /\ (pc.out = "checkErr" /\ pc'.out # "checkErr" /\ outErr = "nil")
                 => (pc'.out = "read" /\ connOut' = connOut /\ done' = done /\ ~Exited')
         ]_vars

\* the inbound read returned the last byte together with end-of-stream; the
\* byte is on standard output and the direction has returned
C20_Witness ==
    /\ variant = "onceRelay"
    /\ inErr = "EOF"
    /\ inBuf # <<>>
    /\ ~inWriteErr
    /\ pc.in = "stopped"
    /\ stdout = remoteSent

====
